---- MODULE Spec2Model ----
(***************************************************************************)
(* The file and folder context menus of the publisher plugin               *)
(* (src/src/commands/file_menu.ts): which item(s) a menu gets, which       *)
(* repository every item targets, and what a click on an item calls.       *)
(***************************************************************************)
EXTENDS Integers, Sequences, FiniteSets, TLC

(* ------------------------------ bounds -------------------------------- *)
\* longest settings.github.otherRepo list
MaxOther == 2
\* most entries a repo frontmatter resolves to
MaxRepoFront == 2
\* clicks followed on one built menu
MaxClicks == 1

(* ------------------------------ values -------------------------------- *)
\* strings used as smartKey and as shareKey of the other repositories
Names == {"a", "b"}
\* the default value of settings.plugin.shareKey
PluginShareKey == "share"
Branches == {"main", "dev"}
FolderName == "docs"
FileTitle == "note.md"

\* String.prototype.toUpperCase on the strings of the model
toUpperCase(s) ==
    CASE s = "a" -> "A"
      [] s = "b" -> "B"
      [] s = "default" -> "DEFAULT"
      [] s = "r1" -> "R1"
      [] s = "r2" -> "R2"
      [] s = "r3" -> "R3"
      [] s = "r4" -> "R4"
      [] OTHER -> s

\* title.replace(".md", "")
replaceMd(s) == IF s = "note.md" THEN "note" ELSE s

\* i18next.t(key, {smartKey, doc}): the key and its interpolated values
t(key, smartKey, doc) == [key |-> key, smartKey |-> smartKey, doc |-> doc]

\* i18next.t("common.default")
CommonDefault == "default"

Repository == [smartKey : Names, shareKey : Names,
               createShortcuts : BOOLEAN, shareAll : BOOLEAN]

\* the null of "Repository | null"
Null == [smartKey |-> "", shareKey |-> "", createShortcuts |-> FALSE, shareAll |-> FALSE]

RECURSIVE SeqsUpTo(_, _)
SeqsUpTo(S, n) ==
    IF n = 0 THEN {<<>>}
    ELSE LET shorter == SeqsUpTo(S, n - 1)
         IN shorter \cup {Append(q, x) : q \in {p \in shorter : Len(p) = n - 1}, x \in S}

\* GitHubPublisherSettings, the fields file_menu.ts reads
Settings ==
    [github : [otherRepoDefined : {TRUE}, otherRepo : SeqsUpTo(Repository, MaxOther)],
     plugin : [shareKey : {PluginShareKey}, fileMenu : BOOLEAN, shareAll : BOOLEAN]]
    \cup
    [github : [otherRepoDefined : {FALSE}, otherRepo : {<<>>}],
     plugin : [shareKey : {PluginShareKey}, fileMenu : BOOLEAN, shareAll : BOOLEAN]]

\* FrontMatterCache | undefined: present = FALSE is undefined; keys are the
\* share keys with a truthy value; repo, multipleRepo tell whether these two
\* fields are truthy; repoFront is the number of repositories it resolves to
FmKeys == Names \cup {PluginShareKey}
NoFrontmatter == [present |-> FALSE, keys |-> {}, repo |-> FALSE,
                  multipleRepo |-> FALSE, repoFront |-> 1]
Frontmatters ==
    [present : {TRUE}, keys : SUBSET FmKeys, repo : BOOLEAN,
     multipleRepo : BOOLEAN, repoFront : 1..MaxRepoFront] \cup {NoFrontmatter}

\* TFile
Files == [extension : {"md"}, title : {FileTitle}, frontmatter : Frontmatters]
         \cup {[extension |-> "png", title |-> "img.png", frontmatter |-> NoFrontmatter]}

(* ------------------- helpers outside file_menu.ts --------------------- *)
\* defaultRepo(settings): the repository of the plugin's own configuration
defaultRepo(s) ==
    [smartKey |-> "default", shareKey |-> s.plugin.shareKey,
     createShortcuts |-> FALSE, shareAll |-> s.plugin.shareAll]

\* Array.prototype.find on the elements that pass its test (Array.prototype
\* filter is SelectSeq): the first of them, Null when there is none
FirstOrNull(hits) == IF hits = << >> THEN Null ELSE Head(hits)

\* getRepoSharedKey(settings, frontmatter): the lookup step. Without a
\* frontmatter the default repository when the plugin shares every file, else
\* null; with one, the first other repository whose share key it enables, else
\* the default repository
getRepoSharedKey(s, frontmatter) ==
    IF ~frontmatter.present
    THEN IF s.plugin.shareAll THEN defaultRepo(s) ELSE Null
    ELSE LET hit == FirstOrNull(SelectSeq(s.github.otherRepo, LAMBDA r : r.shareKey \in frontmatter.keys))
         IN IF hit # Null THEN hit ELSE defaultRepo(s)

\* isShared(frontmatter, settings, file, repo): only notes are shared; when no
\* configuration shares every file the frontmatter must enable the share key
\* of the resolved repository (of the plugin when none was resolved)
isShared(frontmatter, s, file, repo) ==
    IF file.extension # "md" THEN FALSE
    ELSE IF ~s.plugin.shareAll /\ SelectSeq(s.github.otherRepo, LAMBDA r : r.shareAll) = <<>>
    THEN LET shareKey == IF repo # Null THEN repo.shareKey ELSE s.plugin.shareKey
         IN frontmatter.present /\ shareKey \in frontmatter.keys
    ELSE TRUE

\* multipleSharedKey(frontmatter, settings): the distinct keys under which the
\* file is shared: a marker for the plugin sharing every file, the smart key of
\* each other repository sharing every file, and every configured share key
\* the frontmatter enables
multipleSharedKey(frontmatter, s) ==
    LET other == s.github.otherRepo
        marks == (IF s.plugin.shareAll THEN {"share"} ELSE {})
                 \cup {other[i].smartKey : i \in {j \in DOMAIN other : other[j].shareAll}}
        allKey == {other[i].shareKey : i \in DOMAIN other} \cup {s.plugin.shareKey}
    IN IF ~frontmatter.present THEN marks
       ELSE marks \cup (allKey \cap frontmatter.keys)

\* getRepoFrontmatter(settings, repo, frontmatter): the RepoFrontmatter
\* entries the file publishes to (one entry stands for a non-array result)
RepoNames == <<"r1", "r2", "r3", "r4">>
getRepoFrontmatter(s, repo, frontmatter) ==
    [i \in 1..frontmatter.repoFront |-> [repo |-> RepoNames[i]]]

(* ----------------------------- the menu ------------------------------- *)
NoTitle == t("", "", "")
\* no onClick callback registered
NoClick == [kind |-> "none", branchName |-> "", repo |-> Null]
\* new MenuItem(menu)
NewItem == [kind |-> "item", title |-> NoTitle, icon |-> "", section |-> "",
            isLabel |-> FALSE, onClick |-> NoClick, hasSubmenu |-> FALSE,
            submenu |-> <<>>]
\* what Menu.addSeparator appends
Separator == [NewItem EXCEPT !.kind = "separator"]
\* an item the host put in the menu before the plugin's callback runs
HostItem == [NewItem EXCEPT !.kind = "host", !.title = t("Open in new tab", "", "")]
HostMenu == <<HostItem>>

\* the closures registered with onClick: the function called and the values
\* it captured
OnClick(kind, branchName, repo) == [kind |-> kind, branchName |-> branchName, repo |-> repo]

\* i18next.t("commands.shareViewFiles.multiple.on", {smartKey, doc})
MultipleOn(smartKey, doc) == t("commands.shareViewFiles.multiple.on", smartKey, doc)
\* i18next.t("commands.shareViewFiles.multiple.other")
MultipleOther == t("commands.shareViewFiles.multiple.other", "", "")

\* a build that adds the choices in line on every platform
AddToSubMenu_alwaysInline(isDesktop, originalMenu, idx, subs) == originalMenu \o subs

\* Platform.isDesktop ? item.setSubmenu() : originalMenu, then subMenu.addItem
\* for every item of subs; idx is the position of item in originalMenu
AddToSubMenu(isDesktop, originalMenu, idx, subs) ==
    IF isDesktop
    THEN [originalMenu EXCEPT ![idx].hasSubmenu = TRUE, ![idx].submenu = subs]
    ELSE originalMenu \o subs

\* a filter that lets every other repository through
activatedRepoCommands_unfiltered(s) == s.github.otherRepo

\* plugin.settings.github.otherRepo.SelectSeq((repo) => repo.createShortcuts)
activatedRepoCommands(s) == SelectSeq(s.github.otherRepo, LAMBDA r : r.createShortcuts)

\* the items addSubMenuCommandsFolder adds to the submenu
FolderChoices(s, folder, branchName) ==
    LET activated == activatedRepoCommands(s)
    IN  << [NewItem EXCEPT
              !.title = MultipleOn(toUpperCase(CommonDefault), folder),
              !.icon = "folder-up",
              !.onClick = OnClick("shareFolderLookup", branchName, Null)] >>
        \o [i \in 1..Len(activated) |->
             [NewItem EXCEPT
                !.title = MultipleOn(toUpperCase(activated[i].smartKey), folder),
                !.icon = "folder-up",
                !.onClick = OnClick("shareFolderRepo", branchName, activated[i])]]
        \o << [NewItem EXCEPT
                 !.title = MultipleOther,
                 !.icon = "folder-symlink",
                 !.onClick = OnClick("chooseRepoFolder", branchName, Null)] >>

addSubMenuCommandsFolder(s, isDesktop, originalMenu, idx, folder, branchName) ==
    AddToSubMenu(isDesktop, originalMenu, idx, FolderChoices(s, folder, branchName))

\* a test that takes one other repository for none
areTheyMultipleRepo_moreThanOne(s) ==
    s.github.otherRepoDefined /\ Len(s.github.otherRepo) > 1

\* plugin.settings.github?.otherRepo?.length > 0
areTheyMultipleRepo(s) == s.github.otherRepoDefined /\ Len(s.github.otherRepo) > 0

\* the menu after addMenuFolder(menu, folder, branchName, plugin)
addMenuFolder(s, isDesktop, menu, folder, branchName) ==
    LET idx == Len(menu) + 1
        withItem == Append(menu, NewItem)
    IN IF areTheyMultipleRepo(s)
       THEN LET marked ==
                  IF isDesktop
                  THEN [withItem EXCEPT ![idx].title = t("Github Publisher", "", ""),
                                        ![idx].icon = "upload-cloud"]
                  ELSE Append([withItem EXCEPT ![idx].isLabel = TRUE], Separator)
            IN addSubMenuCommandsFolder(s, isDesktop, marked, idx, folder, branchName)
       ELSE [withItem EXCEPT
               ![idx].section = "action",
               ![idx].title = MultipleOn(toUpperCase(CommonDefault), folder),
               ![idx].icon = "folder-up",
               ![idx].onClick = OnClick("shareFolderLookup", branchName, Null)]

\* plugin.getTitleFieldForCommand(file, frontmatter).replace(".md", "")
FileNameOf(file) == replaceMd(file.title)

\* a test that asks for the resolved repository and the frontmatter to agree
ShowsDefault_both(s, frontmatter, repo) ==
    /\ (repo # Null /\ repo.shareKey = s.plugin.shareKey)
    /\ s.plugin.shareKey \in frontmatter.keys
    /\ (~frontmatter.repo \/ ~frontmatter.multipleRepo)

\* the condition under which subMenuCommandsFile adds the default item
ShowsDefault(s, frontmatter, repo) ==
    /\ \/ (repo # Null /\ repo.shareKey = s.plugin.shareKey)
       \/ s.plugin.shareKey \in frontmatter.keys
    /\ (~frontmatter.repo \/ ~frontmatter.multipleRepo)

\* the items subMenuCommandsFile adds to the submenu
FileChoices(s, file, branchName, repo) ==
    LET frontmatter == file.frontmatter
        fileName == FileNameOf(file)
        repoFrontmatter == getRepoFrontmatter(s, repo, frontmatter)
        activated == SelectSeq(s.github.otherRepo, LAMBDA r : r.createShortcuts)
        shown == SelectSeq(activated,
                        LAMBDA r : \/ (repo # Null /\ r.shareKey = repo.shareKey)
                                   \/ r.shareKey \in frontmatter.keys)
        forDefault ==
            IF ShowsDefault(s, frontmatter, repo)
            THEN << [NewItem EXCEPT
                       !.title = MultipleOn(toUpperCase(CommonDefault), fileName),
                       !.icon = "file-up",
                       !.onClick = OnClick("shareOneNoteDefault", branchName, Null)] >>
            ELSE << >>
        forOther ==
            [i \in 1..Len(shown) |->
               [NewItem EXCEPT
                  !.title = MultipleOn(toUpperCase(shown[i].smartKey), fileName),
                  !.icon = "file-up",
                  !.onClick = OnClick("shareOneNote", branchName, shown[i])]]
        forFront ==
            IF Len(repoFrontmatter) > 1
            THEN [i \in 1..Len(repoFrontmatter) |->
                    [NewItem EXCEPT
                       !.title = MultipleOn(toUpperCase(repoFrontmatter[i].repo), fileName),
                       !.icon = "file-up",
                       !.onClick = OnClick("shareOneNote", branchName, repo)]]
            ELSE << >>
    IN  forDefault \o forOther \o forFront
        \o << [NewItem EXCEPT
                 !.title = MultipleOther,
                 !.icon = "file-input",
                 !.onClick = OnClick("chooseRepoFile", branchName, repo)] >>

subMenuCommandsFile(s, isDesktop, originalMenu, idx, file, branchName, repo) ==
    AddToSubMenu(isDesktop, originalMenu, idx, FileChoices(s, file, branchName, repo))

\* the repository the single item of addMenuFile ends up with (lines 133-139)
SingleTarget(s, frontmatter, getSharedKey) ==
    IF ~frontmatter.present \/ s.plugin.shareKey \notin frontmatter.keys
    THEN LET otherRepo == FirstOrNull(SelectSeq(s.github.otherRepo, LAMBDA r : r.shareAll))
         IN IF otherRepo # Null THEN otherRepo
            ELSE IF s.plugin.shareAll THEN defaultRepo(s)
            ELSE getSharedKey
    ELSE defaultRepo(s)

\* getSharedKey?.smartKey.toUpperCase() || i18next.t("common.default").toUpperCase()
SmartKeyOrDefault(getSharedKey) ==
    IF getSharedKey = Null \/ getSharedKey.smartKey = ""
    THEN toUpperCase(CommonDefault)
    ELSE toUpperCase(getSharedKey.smartKey)

\* the single-item path and the several-choices path of addMenuFile
IsMultiple(s, file) ==
    LET frontmatter == file.frontmatter
        getSharedKey == getRepoSharedKey(s, frontmatter)
    IN \/ Cardinality(multipleSharedKey(frontmatter, s)) > 1
       \/ Len(getRepoFrontmatter(s, getSharedKey, frontmatter)) > 1

\* a test that forgets the fileMenu setting
ShowsFileItem_ignoresSetting(s, file) ==
    isShared(file.frontmatter, s, file, getRepoSharedKey(s, file.frontmatter))

\* the condition under which addMenuFile adds an item
ShowsFileItem(s, file) ==
    /\ isShared(file.frontmatter, s, file, getRepoSharedKey(s, file.frontmatter))
    /\ s.plugin.fileMenu

\* the menu after addMenuFile(plugin, file, branchName, menu)
addMenuFile(s, isDesktop, menu, file, branchName) ==
    LET frontmatter == file.frontmatter
        getSharedKey == getRepoSharedKey(s, frontmatter)
        idx == Len(menu) + 1
        withItem == Append(menu, NewItem)
    IN IF ShowsFileItem(s, file)
       THEN IF IsMultiple(s, file)
            THEN LET marked ==
                       IF isDesktop
                       THEN [withItem EXCEPT ![idx].title = t("Github Publisher", "", ""),
                                             ![idx].icon = "upload-cloud"]
                       ELSE Append([withItem EXCEPT ![idx].isLabel = TRUE], Separator)
                 IN subMenuCommandsFile(s, isDesktop, marked, idx, file, branchName,
                                        getSharedKey)
            ELSE LET target == SingleTarget(s, frontmatter, getSharedKey)
                 IN [withItem EXCEPT
                       ![idx].title = MultipleOn(SmartKeyOrDefault(target), FileNameOf(file)),
                       ![idx].icon = "file-up",
                       ![idx].onClick = OnClick("shareOneNote", branchName, target)]
       ELSE menu

(* ------------------------------ state --------------------------------- *)
VARIABLES
    settings,    \* plugin.settings
    isDesktop,   \* Platform.isDesktop
    menu,        \* the items of the menu last built
    ctx,         \* what the menu was built for
    task,        \* the share started by a click and how far it got
    modal,       \* the open ChooseRepoToRun modal, if any
    calls,       \* the calls made to the collaborators since the menu was built
    events       \* the user's clicks and selections since the menu was built

vars == <<settings, isDesktop, menu, ctx, task, modal, calls, events>>

NoFile == [extension |-> "", title |-> "", frontmatter |-> NoFrontmatter]
NoCtx == [kind |-> "none", file |-> NoFile, folder |-> "", branchName |-> ""]
Idle == [pc |-> "idle", kind |-> "", branchName |-> "", repo |-> Null, error |-> ""]
NoModal == [open |-> FALSE, kind |-> "", branchName |-> ""]

\* a call to a collaborator, or (op ending in ":rejected") its promise rejecting
Call(op, branchName, repo, doc) ==
    [op |-> op, branchName |-> branchName, repo |-> repo, doc |-> doc]

Init ==
    /\ settings \in Settings
    /\ isDesktop \in BOOLEAN
    /\ menu = HostMenu
    /\ ctx = NoCtx
    /\ task = Idle
    /\ modal = NoModal
    /\ calls = << >>
    /\ events = << >>

\* the configurations and files the shares are followed on: the menu is
\* enabled, and an other repository is named by its share key and does not
\* share every file
ShareSettings ==
    {s \in Settings :
        /\ s.plugin.fileMenu
        /\ \A i \in DOMAIN s.github.otherRepo :
              /\ s.github.otherRepo[i].smartKey = s.github.otherRepo[i].shareKey
              /\ ~s.github.otherRepo[i].shareAll}
ShareFiles == {f \in Files : ~f.frontmatter.repo /\ ~f.frontmatter.multipleRepo}

InitShare == Init /\ settings \in ShareSettings

\* no share is between two of its steps
Settled == task.pc \in {"idle", "done", "failed"} /\ ~modal.open

\* the host opens the context menu of a file and the plugin's "file-menu"
\* callback runs addMenuFile on it. The lookups read settings.github.otherRepo
\* as the array its type declares, so file menus are followed on the settings
\* that have one
AddMenuFile(file, branchName) ==
    /\ Settled
    /\ settings.github.otherRepoDefined
    /\ menu' = addMenuFile(settings, isDesktop, HostMenu, file, branchName)
    /\ ctx' = [kind |-> "file", file |-> file, folder |-> "", branchName |-> branchName]
    /\ task' = Idle
    /\ modal' = NoModal
    /\ calls' = << >>
    /\ events' = << >>
    /\ UNCHANGED <<settings, isDesktop>>

\* the same for a folder, with addMenuFolder
AddMenuFolder(folder, branchName) ==
    /\ Settled
    /\ menu' = addMenuFolder(settings, isDesktop, HostMenu, folder, branchName)
    /\ ctx' = [kind |-> "folder", file |-> NoFile, folder |-> folder, branchName |-> branchName]
    /\ task' = Idle
    /\ modal' = NoModal
    /\ calls' = << >>
    /\ events' = << >>
    /\ UNCHANGED <<settings, isDesktop>>

\* the document a handler of the menu shares
Doc == IF ctx.kind = "file" THEN FileNameOf(ctx.file) ELSE ctx.folder

FileKinds == {"shareOneNote", "shareOneNoteDefault"}
FolderKinds == {"shareFolderLookup", "shareFolderRepo"}
ChooserKinds == {"chooseRepoFile", "chooseRepoFolder"}

\* the item at position i of the menu (j = 0) or at j in its submenu
ItemAt(i, j) == IF j = 0 THEN menu[i] ELSE menu[i].submenu[j]

\* the user clicks an item: its onClick callback runs up to its first await.
\* A repository item calls plugin.reloadOctokit() (shareOneNote's second
\* argument, shareFolderRepo's first statement); the chooser opens the modal
ClickRuns(i, j) ==
    /\ Settled
    /\ Len(events) < MaxClicks
    /\ i \in DOMAIN menu
    /\ j \in {0} \cup DOMAIN menu[i].submenu
    /\ LET h == ItemAt(i, j).onClick
       IN /\ h.kind # "none"
          /\ events' = Append(events, h)
          /\ IF h.kind \in ChooserKinds
             THEN /\ modal' = [open |-> TRUE, kind |-> h.kind, branchName |-> h.branchName]
                  /\ UNCHANGED <<task, calls>>
             ELSE /\ task' = [pc |-> "reload", kind |-> h.kind, branchName |-> h.branchName,
                              repo |-> CASE h.kind = "shareFolderLookup" ->
                                              getRepoSharedKey(settings, NoFrontmatter)
                                         [] h.kind = "shareOneNoteDefault" ->
                                              defaultRepo(settings)
                                         [] OTHER -> h.repo,
                              error |-> ""]
                  /\ calls' = Append(calls, Call("reloadOctokit", "", Null, ""))
                  /\ UNCHANGED modal
    /\ UNCHANGED <<isDesktop, menu, ctx>>

\* a handler that switches the file menu off in the settings it reads
Click_writesSettings(i, j) ==
    /\ ClickRuns(i, j)
    /\ settings' = [settings EXCEPT !.plugin.fileMenu = FALSE]

Click(i, j) ==
    /\ ClickRuns(i, j)
    /\ UNCHANGED settings

\* a callback that shares to the first other repository, whatever was picked
ModalChoose_firstRepo(item) ==
    /\ modal.open
    /\ events' = Append(events, OnClick("select", modal.branchName, item))
    /\ task' = [pc |-> "reload",
                kind |-> IF modal.kind = "chooseRepoFile" THEN "shareOneNote"
                         ELSE "shareFolderRepo",
                branchName |-> modal.branchName, repo |-> settings.github.otherRepo[1],
                error |-> ""]
    /\ calls' = Append(calls, Call("reloadOctokit", "", Null, ""))
    /\ modal' = NoModal
    /\ UNCHANGED <<settings, isDesktop, menu, ctx>>

\* the user picks the repository item in the ChooseRepoToRun modal: the callback
\* given to the modal runs up to its first await, as a repository item does
ModalChoose(item) ==
    /\ modal.open
    /\ events' = Append(events, OnClick("select", modal.branchName, item))
    /\ task' = [pc |-> "reload",
                kind |-> IF modal.kind = "chooseRepoFile" THEN "shareOneNote"
                         ELSE "shareFolderRepo",
                branchName |-> modal.branchName, repo |-> item, error |-> ""]
    /\ calls' = Append(calls, Call("reloadOctokit", "", Null, ""))
    /\ modal' = NoModal
    /\ UNCHANGED <<settings, isDesktop, menu, ctx>>

\* the user closes the modal without picking a repository
ModalClose ==
    /\ modal.open
    /\ modal' = NoModal
    /\ UNCHANGED <<settings, isDesktop, menu, ctx, task, calls, events>>

\* plugin.reloadOctokit() resolves and the handler goes on to its next await:
\* shareOneNote(...) for a file; addStatusBarItem(), then
\* shareAllMarkedNotes(...) on the shared files of the folder, for a folder
ReloadOk ==
    /\ task.pc = "reload"
    /\ calls' =
         IF task.kind \in FileKinds
         THEN Append(calls, Call("shareOneNote", task.branchName, task.repo, Doc))
         ELSE calls \o << Call("addStatusBarItem", "", Null, ""),
                          Call("shareAllMarkedNotes", task.branchName, task.repo, Doc) >>
    /\ task' = [task EXCEPT !.pc = "sharing"]
    /\ UNCHANGED <<settings, isDesktop, menu, ctx, modal, events>>

\* a handler that catches the rejection and goes on with the share
ReloadFail_swallowed ==
    /\ task.pc = "reload"
    /\ calls' = calls \o << Call("reloadOctokit:rejected", "", Null, "") >>
                      \o (IF task.kind \in FileKinds
                          THEN << Call("shareOneNote", task.branchName, task.repo, Doc) >>
                          ELSE << Call("addStatusBarItem", "", Null, ""),
                                  Call("shareAllMarkedNotes", task.branchName, task.repo, Doc) >>)
    /\ task' = [task EXCEPT !.pc = "sharing"]
    /\ UNCHANGED <<settings, isDesktop, menu, ctx, modal, events>>

\* plugin.reloadOctokit() rejects: nothing catches it, the handler ends there
ReloadFail ==
    /\ task.pc = "reload"
    /\ calls' = Append(calls, Call("reloadOctokit:rejected", "", Null, ""))
    /\ task' = [task EXCEPT !.pc = "failed", !.error = "reloadOctokit"]
    /\ UNCHANGED <<settings, isDesktop, menu, ctx, modal, events>>

\* the share call resolves or rejects, and the handler ends
ShareSettle(ok) ==
    /\ task.pc = "sharing"
    /\ task' = IF ok THEN [task EXCEPT !.pc = "done"]
               ELSE [task EXCEPT !.pc = "failed", !.error = "share"]
    /\ UNCHANGED <<settings, isDesktop, menu, ctx, modal, calls, events>>

\* the menus alone: a menu is built for every file and folder
NextMenu ==
    \/ ctx.kind = "none" /\ \E file \in Files : AddMenuFile(file, "main")
    \/ ctx.kind = "none" /\ AddMenuFolder(FolderName, "main")

SpecMenu == Init /\ [][NextMenu]_vars

\* a behaviour follows the menu of one file or folder: it is opened, clicked,
\* and may be opened again
Next ==
    \/ ctx.kind = "none" /\ \E file \in ShareFiles, b \in Branches : AddMenuFile(file, b)
    \/ ctx.kind = "none" /\ \E b \in Branches : AddMenuFolder(FolderName, b)
    \/ ctx.kind = "file" /\ AddMenuFile(ctx.file, ctx.branchName)
    \/ ctx.kind = "folder" /\ AddMenuFolder(ctx.folder, ctx.branchName)
    \/ \E i \in DOMAIN menu : \E j \in {0} \cup DOMAIN menu[i].submenu : Click(i, j)
    \/ \E k \in DOMAIN settings.github.otherRepo : ModalChoose(settings.github.otherRepo[k])
    \/ ModalClose
    \/ ReloadOk
    \/ ReloadFail
    \/ \E ok \in BOOLEAN : ShareSettle(ok)

Spec == InitShare /\ [][Next]_vars

(* ------------------------------ claims -------------------------------- *)
\* where the plugin's item sits in the menu
ItemIdx == Len(HostMenu) + 1
Frontmatter == ctx.file.frontmatter
\* the repository the lookup step resolves for the file of the menu
Resolved == getRepoSharedKey(settings, Frontmatter)
HasHandler(item) == item.onClick.kind # "none"
\* the menu was built on the several-choices path
SeveralExpected ==
    \/ ctx.kind = "folder" /\ settings.github.otherRepoDefined
                           /\ Len(settings.github.otherRepo) > 0
    \/ ctx.kind = "file" /\ ShowsFileItem(settings, ctx.file) /\ IsMultiple(settings, ctx.file)
\* the choice items of such a menu, wherever the platform put them
Choices ==
    IF isDesktop THEN menu[ItemIdx].submenu ELSE SubSeq(menu, ItemIdx + 2, Len(menu))
Count(seq, Test(_)) == Cardinality({i \in DOMAIN seq : Test(seq[i])})

\* C1: addMenuFile adds an item exactly when the file is shared and
\* settings.plugin.fileMenu is set; otherwise the menu is what it was: no
\* item, no separator, no click handler
C1_ItemOnlyWhenSharedAndEnabled ==
    ctx.kind = "file" =>
        LET shared == isShared(Frontmatter, settings, ctx.file, Resolved)
        IN IF shared /\ settings.plugin.fileMenu
           THEN /\ Len(menu) > Len(HostMenu)
                /\ SubSeq(menu, 1, Len(HostMenu)) = HostMenu
                /\ menu[ItemIdx].kind = "item"
           ELSE menu = HostMenu

\* a shared file whose menu stays as it was because fileMenu is off
C1_Witness ==
    /\ ctx.kind = "file"
    /\ isShared(Frontmatter, settings, ctx.file, Resolved)
    /\ ~settings.plugin.fileMenu
    /\ menu = HostMenu

\* the other repositories whose share key the frontmatter of the file enables
EnabledOthers ==
    {i \in DOMAIN settings.github.otherRepo :
        settings.github.otherRepo[i].shareKey \in Frontmatter.keys}
\* the single-item path, for a file that enables the share key of exactly one
\* other repository and not the plugin's
C2_Case ==
    /\ ctx.kind = "file"
    /\ ShowsFileItem(settings, ctx.file)
    /\ ~IsMultiple(settings, ctx.file)
    /\ Frontmatter.present
    /\ settings.plugin.shareKey \notin Frontmatter.keys
    /\ Cardinality(EnabledOthers) = 1

\* C2: on the single-item path, a file whose frontmatter enables the share
\* key of exactly one other repository R, and not the plugin's share key, gets
\* an item labelled with R that shares to R, whatever the settings
C2_SingleItemTargetsResolved ==
    C2_Case =>
        LET R == settings.github.otherRepo[CHOOSE i \in EnabledOthers : TRUE]
        IN /\ Resolved = R
           /\ menu[ItemIdx].onClick = OnClick("shareOneNote", ctx.branchName, R)
           /\ menu[ItemIdx].title.smartKey = toUpperCase(R.smartKey)

\* the repository argument of the shareOneNote call an item of a file menu makes
TargetOf(item) ==
    IF item.onClick.kind = "shareOneNoteDefault" THEN defaultRepo(settings)
    ELSE item.onClick.repo
\* the positions of the repository items among the choices of a file menu
RepoItems == {i \in DOMAIN Choices : Choices[i].onClick.kind \in FileKinds}

\* C3: every repository item of subMenuCommandsFile shares to the repository
\* its title names, so two items with different repository titles never share
\* with the same repository argument
C3_TitlesNameTargets ==
    (ctx.kind = "file" /\ SeveralExpected) =>
        \A i, j \in RepoItems :
            Choices[i].title.smartKey # Choices[j].title.smartKey
                => TargetOf(Choices[i]) # TargetOf(Choices[j])

\* C4: addMenuFolder presents one direct action exactly when otherRepo is
\* empty or absent: in section "action", titled with DEFAULT and the folder
\* name, sharing the folder to getRepoSharedKey(settings, undefined); with an
\* other repository the item has no handler and addSubMenuCommandsFolder
\* builds the choices
C4_FolderSingleOrSeveral ==
    ctx.kind = "folder" =>
        LET item == menu[ItemIdx]
            none == ~settings.github.otherRepoDefined \/ settings.github.otherRepo = << >>
        IN /\ HasHandler(item) <=> none
           /\ none =>
                /\ Len(menu) = ItemIdx
                /\ item.section = "action"
                /\ item.title = MultipleOn("DEFAULT", ctx.folder)
                /\ item.onClick.kind = "shareFolderLookup"
                /\ ~item.hasSubmenu
                /\ task.pc # "idle" => task.repo = getRepoSharedKey(settings, NoFrontmatter)
                /\ \A k \in DOMAIN calls :
                      calls[k].op = "shareAllMarkedNotes" =>
                          /\ calls[k].repo = getRepoSharedKey(settings, NoFrontmatter)
                          /\ calls[k].doc = ctx.folder
           /\ ~none =>
                /\ item.onClick = NoClick
                /\ item.section = ""
                /\ Choices # << >>
                /\ \A k \in DOMAIN Choices : HasHandler(Choices[k])

\* the direct action of a folder was clicked and the folder was shared, with
\* otherRepo absent from the settings
C4_Witness ==
    /\ ctx.kind = "folder"
    /\ ~settings.github.otherRepoDefined
    /\ task.pc = "done"
    /\ \E k \in DOMAIN calls : calls[k].op = "shareAllMarkedNotes"

\* C5: when several choices are presented, on desktop the menu gets one item,
\* titled "Github Publisher", and every choice is in its submenu; elsewhere
\* there is no submenu: the item is a label, a separator follows it and every
\* choice is in the menu itself
C5_PlatformPlacesChoices ==
    SeveralExpected =>
        IF isDesktop
        THEN /\ Len(menu) = ItemIdx
             /\ menu[ItemIdx].title = t("Github Publisher", "", "")
             /\ menu[ItemIdx].hasSubmenu
             /\ menu[ItemIdx].submenu # << >>
             /\ \A k \in DOMAIN menu[ItemIdx].submenu : HasHandler(menu[ItemIdx].submenu[k])
             /\ \A k \in DOMAIN menu : ~HasHandler(menu[k]) /\ menu[k].kind # "separator"
        ELSE /\ \A k \in DOMAIN menu : ~menu[k].hasSubmenu /\ menu[k].submenu = << >>
             /\ menu[ItemIdx].isLabel
             /\ ~HasHandler(menu[ItemIdx])
             /\ Len(menu) > ItemIdx + 1
             /\ menu[ItemIdx + 1] = Separator
             /\ Count(menu, LAMBDA x : x.kind = "separator") = 1
             /\ \A k \in (ItemIdx + 2)..Len(menu) : HasHandler(menu[k])

\* a file menu of several choices built in line, off the desktop
C5_Witness ==
    /\ ctx.kind = "file"
    /\ SeveralExpected
    /\ ~isDesktop
    /\ Len(menu) >= ItemIdx + 3

\* the share calls among the collaborator calls
IsShare(c) == c.op \in {"shareOneNote", "shareAllMarkedNotes"}
\* the clicks on repository items and the selections in the modal
IsStart(e) == e.kind \in FileKinds \cup FolderKinds \cup {"select"}
Last(seq) == seq[Len(seq)]
\* the repository the handler behind a click or selection shares to
RepoOf(e) ==
    CASE e.kind = "shareFolderLookup" -> getRepoSharedKey(settings, NoFrontmatter)
      [] e.kind = "shareOneNoteDefault" -> defaultRepo(settings)
      [] OTHER -> e.repo

\* C6 as stated: every click on a repository item causes exactly one share
\* call, so a handler that has ended leaves as many share calls as there were
\* clicks on repository items
C6_OneShareCallPerClick ==
    (task.pc \in {"done", "failed"} /\ ~modal.open) =>
        Count(calls, IsShare) = Count(events, IsStart)

\* C6, amended: building a menu calls no collaborator; every click on a
\* repository item (and every selection in the modal) calls reloadOctokit
\* once and causes one share call when that call resolves, none when it
\* rejects; the share call carries the branchName the menu was built with and
\* the repository of the item, or the one picked in the modal; a click on the
\* "other repository" item alone causes no call
C6_SharesOnlyOnClick ==
    /\ events = << >> => calls = << >> /\ task = Idle /\ ~modal.open
    /\ Count(calls, LAMBDA c : c.op = "reloadOctokit") = Count(events, IsStart)
    /\ Count(calls, IsShare) =
          Count(events, IsStart)
          - Count(calls, LAMBDA c : c.op = "reloadOctokit:rejected")
          - (IF task.pc = "reload" THEN 1 ELSE 0)
    /\ \A k \in DOMAIN calls :
          IsShare(calls[k]) =>
              /\ calls[k].branchName = ctx.branchName
              /\ \E e \in DOMAIN events :
                    IsStart(events[e]) /\ calls[k].repo = RepoOf(events[e])
    /\ modal.open => /\ Last(events).kind \in ChooserKinds
                     /\ task.pc # "reload" /\ task.pc # "sharing"
    /\ Len(calls) <= 3 * Count(events, IsStart)
    /\ (events # << >> /\ Last(events).kind = "select"
          /\ (task.pc \in {"sharing", "done"} \/ task.error = "share")) =>
          /\ IsShare(Last(calls))
          /\ Last(calls).repo = Last(events).repo
          /\ Len(events) > 1
          /\ events[Len(events) - 1].kind \in ChooserKinds

\* a repository picked in the modal was shared to, on the branch of the menu
C6_Witness ==
    /\ events # << >>
    /\ Last(events).kind = "select"
    /\ task.pc = "done"
    /\ Last(calls).repo = Last(events).repo
    /\ Last(calls).branchName = "dev"

\* C7: addSubMenuCommandsFolder adds k + 2 items, k the number of otherRepo
\* entries with createShortcuts: the DEFAULT item, sharing the folder to
\* getRepoSharedKey(settings, undefined), one item per such entry in settings
\* order, sharing the folder to that entry, and the chooser last
Shortcuts == {i \in DOMAIN settings.github.otherRepo : settings.github.otherRepo[i].createShortcuts}
\* the position in otherRepo of the n-th entry with createShortcuts
NthShortcut(n) == CHOOSE i \in Shortcuts : Cardinality({j \in Shortcuts : j <= i}) = n
C7_FolderChoicesInOrder ==
    (ctx.kind = "folder" /\ SeveralExpected) =>
        LET k == Cardinality(Shortcuts)
        IN /\ Len(Choices) = k + 2
           /\ Choices[1].title = MultipleOn("DEFAULT", ctx.folder)
           /\ Choices[1].onClick.kind = "shareFolderLookup"
           /\ \A n \in 1..k :
                 LET entry == settings.github.otherRepo[NthShortcut(n)]
                 IN /\ Choices[n + 1].title = MultipleOn(toUpperCase(entry.smartKey), ctx.folder)
                    /\ Choices[n + 1].onClick = OnClick("shareFolderRepo", ctx.branchName, entry)
           /\ Choices[k + 2].title = MultipleOther
           /\ Choices[k + 2].onClick.kind = "chooseRepoFolder"
           /\ (task.pc # "idle" /\ Last(events).kind \in FolderKinds) =>
                 task.repo = RepoOf(Last(events))
           /\ \A c \in DOMAIN calls :
                 calls[c].op = "shareAllMarkedNotes" =>
                     /\ calls[c].doc = ctx.folder
                     /\ \E e \in DOMAIN events :
                           IsStart(events[e]) /\ calls[c].repo = RepoOf(events[e])

\* a folder menu where the first other repository has no shortcut and the
\* second has one, whose item was clicked and shared the folder to it
C7_Witness ==
    /\ ctx.kind = "folder"
    /\ Len(settings.github.otherRepo) = 2
    /\ Shortcuts = {2}
    /\ Len(Choices) = 3
    /\ task.pc = "done"
    /\ task.repo = settings.github.otherRepo[2]
    /\ Last(calls).op = "shareAllMarkedNotes"

\* C8: shareFolderRepo calls reloadOctokit first; only when it has resolved
\* does it add the status bar item and then call shareAllMarkedNotes, once,
\* with the given branchName, repository and folder; when reloadOctokit
\* rejects it adds no status bar item, calls no shareAllMarkedNotes and ends
\* with the rejection uncaught
C8_FolderShareInOrder ==
    ctx.kind = "folder" =>
        /\ \A k \in DOMAIN calls :
              /\ calls[k].op = "reloadOctokit" =>
                    \/ k = Len(calls) /\ task.pc = "reload"
                    \/ k < Len(calls) /\ calls[k + 1].op \in {"reloadOctokit:rejected",
                                                              "addStatusBarItem"}
              /\ calls[k].op = "addStatusBarItem" =>
                    /\ k > 1 /\ calls[k - 1].op = "reloadOctokit"
                    /\ k < Len(calls) /\ calls[k + 1].op = "shareAllMarkedNotes"
              /\ calls[k].op = "shareAllMarkedNotes" =>
                    /\ k > 2 /\ calls[k - 1].op = "addStatusBarItem"
                    /\ calls[k].branchName = ctx.branchName
                    /\ calls[k].doc = ctx.folder
                    /\ k < Len(calls) => calls[k + 1].op = "reloadOctokit"
              /\ calls[k].op = "reloadOctokit:rejected" =>
                    /\ k > 1 /\ calls[k - 1].op = "reloadOctokit"
                    /\ k < Len(calls) => calls[k + 1].op = "reloadOctokit"
        /\ task.pc \in {"sharing", "done"} \/ task.error = "share" =>
              /\ Last(calls).op = "shareAllMarkedNotes"
              /\ Last(calls).repo = task.repo
              /\ Last(calls).branchName = task.branchName
        /\ task.error = "reloadOctokit" =>
              /\ task.pc = "failed"
              /\ Last(calls).op = "reloadOctokit:rejected"
        /\ task.pc = "reload" => Last(calls).op = "reloadOctokit"

\* a folder share that stopped at a rejected reloadOctokit
C8_Witness ==
    /\ ctx.kind = "folder"
    /\ task.pc = "failed"
    /\ task.error = "reloadOctokit"
    /\ Count(calls, LAMBDA c : c.op = "addStatusBarItem") = 0

\* C9: subMenuCommandsFile adds the DEFAULT item exactly when the resolved
\* repository has the plugin's share key or the frontmatter enables it, and
\* the frontmatter does not define both repo and multipleRepo; the chooser is
\* always added, last, so there is always a choice
C9_DefaultItemAndChooser ==
    (ctx.kind = "file" /\ SeveralExpected) =>
        LET wanted == /\ \/ Resolved.shareKey = settings.plugin.shareKey
                         \/ settings.plugin.shareKey \in Frontmatter.keys
                      /\ ~(Frontmatter.repo /\ Frontmatter.multipleRepo)
            defaults == {i \in DOMAIN Choices : Choices[i].onClick.kind = "shareOneNoteDefault"}
        IN /\ Choices # << >>
           /\ Last(Choices).title = MultipleOther
           /\ Last(Choices).onClick.kind = "chooseRepoFile"
           /\ Count(Choices, LAMBDA x : x.onClick.kind \in ChooserKinds) = 1
           /\ defaults = IF wanted THEN {1} ELSE {}
           /\ wanted => Choices[1].title = MultipleOn("DEFAULT", FileNameOf(ctx.file))

\* a file that enables the plugin's share key while the lookup resolves an
\* other repository: the DEFAULT item is there, before that repository's item
C9_Witness ==
    /\ ctx.kind = "file"
    /\ SeveralExpected
    /\ Resolved.shareKey # settings.plugin.shareKey
    /\ settings.plugin.shareKey \in Frontmatter.keys
    /\ Choices[1].onClick.kind = "shareOneNoteDefault"
    /\ Len(Choices) >= 3

\* C10: no build and no click changes the settings, so a menu built again for
\* the same file or folder has the same items with the same targets
C10_SettingsUntouched ==
    [][/\ settings' = settings
       /\ (ctx.kind # "none" /\ ctx' = ctx) => menu' = menu]_vars

\* a menu whose item was clicked and whose share has ended: the menu can be
\* built again
C10_Witness ==
    /\ ctx.kind = "file"
    /\ task.pc = "done"
    /\ Len(menu) > Len(HostMenu)

====
